---------------------------- MODULE Spec2Model ----------------------------
(***************************************************************************)
(* Study-event recurrence expansion and completion tracking                *)
(* (src/src/modules/studyEvents).                                          *)
(*                                                                         *)
(* Time.  A Date is its time value, counted here in whole minutes since    *)
(* 1970-01-01T00:00Z.  Every timestamp the model feeds in is a whole       *)
(* minute, so the last instant of a day, 23:59:59.999, is the minute       *)
(* 23:59.  The server's zone is a fixed offset TZ (minutes east of UTC,    *)
(* no daylight saving): local wall clock = time value + TZ.                *)
(***************************************************************************)
EXTENDS Integers, Sequences, FiniteSets, TLC

(***************************************************************************)
(* Bounds of the model.                                                    *)
(***************************************************************************)
MaxEvents == 2      \* stored StudyEvent documents
MaxLogs   == 2      \* stored StudyEventLog documents

(***************************************************************************)
(* Program constants.                                                      *)
(***************************************************************************)
MinutesPerDay == 1440   \* 24 * 60 * 60 * 1000 ms
EndOfDayMinute == 1439  \* 23, 59, 59, 999
OK == 200
CREATED == 201
BAD_REQUEST == 400
NOT_FOUND == 404
CONFLICT == 409
INTERNAL_SERVER_ERROR == 500

NoDate == -1            \* undefined / null Date
NoLog == 0              \* findOne found nothing

VARIABLES
    TZ,         \* the server's UTC offset in minutes (local = UTC + TZ)
    now,        \* the wall clock, read by new Date()
    events,     \* the StudyEvent collection, in insertion order
    logs,       \* the StudyEventLog collection, in insertion order
    proc,       \* the requests in flight, one per client connection
    evalIn,     \* Evaluator harness: the (event, date) handed to matchesRecurrence
    evalOut     \* Evaluator harness: what the call produced

vars == <<TZ, now, events, logs, proc, evalIn, evalOut>>

(***************************************************************************)
(* The Date built-ins the service uses (ECMAScript MakeDay, WeekDay,       *)
(* Date.parse, toISOString), on the proleptic Gregorian calendar.          *)
(***************************************************************************)

\* Day number (days since 1970-01-01) of the civil date y-m-d, m in 1..12.
DaysFromCivil(y, m, d) ==
    LET yy  == IF m <= 2 THEN y - 1 ELSE y
        era == yy \div 400
        yoe == yy - era * 400
        mp  == IF m > 2 THEN m - 3 ELSE m + 9
        doy == (153 * mp + 2) \div 5 + d - 1
        doe == yoe * 365 + yoe \div 4 - yoe \div 100 + doy
    IN  era * 146097 + doe - 719468

\* The civil date <<y, m, d>> of a day number.
CivilFromDays(z) ==
    LET zz  == z + 719468
        era == zz \div 146097
        doe == zz - era * 146097
        yoe == (doe - doe \div 1460 + doe \div 36524 - doe \div 146096) \div 365
        doy == doe - (365 * yoe + yoe \div 4 - yoe \div 100)
        mp  == (5 * doy + 2) \div 153
        d   == doy - (153 * mp + 2) \div 5 + 1
        m   == IF mp < 10 THEN mp + 3 ELSE mp - 9
        y   == yoe + era * 400 + (IF m <= 2 THEN 1 ELSE 0)
    IN  <<y, m, d>>

\* MakeDay: month index and day of month may lie outside their ranges
\* (month index 12 is January of the next year, day 0 the last day of the
\* month before).
MakeDay(year, monthIndex, day) ==
    DaysFromCivil(year + monthIndex \div 12, (monthIndex % 12) + 1, 1) + day - 1

\* new Date(year, monthIndex, day, 0|23, 0|59, ...): server-local time; a
\* year 0..99 means 1900 + year.
NewLocalDate(year, monthIndex, day, minuteOfDay) ==
    LET y == IF year >= 0 /\ year <= 99 THEN 1900 + year ELSE year
    IN  MakeDay(y, monthIndex, day) * MinutesPerDay + minuteOfDay - TZ

\* The local day number of a time value.
LocalDay(t) == (t + TZ) \div MinutesPerDay

\* date.setHours(0, 0, 0, 0): local midnight of the date's local day.
SetHoursMidnight(t) == LocalDay(t) * MinutesPerDay - TZ

\* date.setHours(23, 59, 59, 999)
SetHoursEndOfDay(t) == LocalDay(t) * MinutesPerDay + EndOfDayMinute - TZ

\* date.setDate(date.getDate() + 1): the next local calendar day, same local
\* time of day.
SetDateNextDay(t) ==
    LET c == CivilFromDays(LocalDay(t))
        minuteOfDay == (t + TZ) % MinutesPerDay
    IN  MakeDay(c[1], c[2] - 1, c[3] + 1) * MinutesPerDay + minuteOfDay - TZ

\* date.toISOString().split('T')[0]: the UTC calendar date <<y, m, d>>.
ISODate(t) == CivilFromDays(t \div MinutesPerDay)

\* new Date(string).  A date-only string is UTC midnight, a date-time string
\* ending in Z is UTC, a date-time string without zone is local time.
ParseDate(s) ==
    LET base == DaysFromCivil(s.y, s.m, s.d) * MinutesPerDay + s.minute
    IN  IF s.form = "local" THEN base - TZ ELSE base

\* title.trim() on a title held as a sequence of characters.
RECURSIVE TrimLeft(_)
TrimLeft(t) == IF t # <<>> /\ Head(t) = " " THEN TrimLeft(Tail(t)) ELSE t

RECURSIVE TrimRight(_)
TrimRight(t) ==
    IF t # <<>> /\ t[Len(t)] = " " THEN TrimRight(SubSeq(t, 1, Len(t) - 1)) ELSE t

Trim(t) == TrimRight(TrimLeft(t))

(***************************************************************************)
(* Request inputs.                                                         *)
(***************************************************************************)
Users == {"A", "B"}

DateOnly(y, m, d)      == [form |-> "date",  y |-> y, m |-> m, d |-> d, minute |-> 0]
DateTimeZ(y, m, d, mi) == [form |-> "utc",   y |-> y, m |-> m, d |-> d, minute |-> mi]
NoDateStr              == [form |-> "absent", y |-> 0, m |-> 0, d |-> 0, minute |-> 0]

Recurrence(type, days) == [present |-> TRUE, type |-> type, daysDefined |-> TRUE,
                           daysOfWeek |-> days]
NoRecurrence == [present |-> FALSE, type |-> "undefined", daysDefined |-> FALSE,
                 daysOfWeek |-> {}]

Title == <<"S", "t">>
PaddedTitle == <<" ", "S", "t", " ">>
BlankTitle == <<" ", " ">>
NoTitle == << >>

Body(title, date, isRecurring, recurrence) ==
    [title |-> title, date |-> date, isRecurring |-> isRecurring,
     recurrence |-> recurrence]

\* The request bodies POST / is called with.
OneOffBody == Body(Title, DateOnly(2024, 3, 15), FALSE, NoRecurrence)

CreateBodies ==
    { OneOffBody,
      Body(PaddedTitle, DateTimeZ(2024, 2, 29, 1200), FALSE, Recurrence("custom", {2})),
      Body(Title, DateOnly(2024, 2, 10), TRUE, Recurrence("weekly", {1, 3, 5})),
      Body(Title, NoDateStr, TRUE, Recurrence("weekly", {})),
      Body(BlankTitle, DateOnly(2024, 3, 15), FALSE, NoRecurrence),
      Body(NoTitle, NoDateStr, FALSE, NoRecurrence),
      Body(Title, NoDateStr, TRUE,
           [present |-> TRUE, type |-> "custom", daysDefined |-> FALSE,
            daysOfWeek |-> {}]),
      Body(Title, NoDateStr, TRUE, Recurrence("weekly", {7})) }

\* The POST / calls: user A sends every body, user B the plain one-off.
CreateCalls ==
    { <<"A", b>> : b \in CreateBodies } \cup { <<"B", OneOffBody>> }

\* The month tokens GET /?month= is called with, as (year, month) digits.
MonthToken(y, m) == [year |-> y, month |-> m]
NoMonth == MonthToken(0, 0)
MonthTokens == { MonthToken(2024, 3), MonthToken(2024, 2) }

\* The month parameter as the query string carries it: a sequence of
\* characters; YYYY-MM written out for a year and a month number.
DigitChars == <<"0", "1", "2", "3", "4", "5", "6", "7", "8", "9">>
Digit(k) == DigitChars[k + 1]
MonthQuery(y, m) ==
    << Digit(y \div 1000), Digit((y \div 100) % 10), Digit((y \div 10) % 10),
       Digit(y % 10), "-", Digit(m \div 10), Digit(m % 10) >>
NoMonthQuery == << >>
MonthQueries == { MonthQuery(t.year, t.month) : t \in MonthTokens }

\* The dates POST /:eventId/complete is called with.
CompleteDates == { NoDateStr, DateOnly(2024, 3, 15) }

\* The server's zone and clock.
TZChoices == { -300, 0, 330 }
NowChoices == { DaysFromCivil(2024, 3, 15) * MinutesPerDay + 720 }

(***************************************************************************)
(* studyEvent.service.js: the Recurrence Evaluator.                        *)
(***************************************************************************)

\* Mutant: the day of the week taken in UTC (getUTCDay) instead of local time.
getDayOfWeekUTC(date) == (date \div MinutesPerDay + 4) % 7

\* date.getDay(): the local day of the week, 0 = Sunday.
getDayOfWeek(date) == (LocalDay(date) + 4) % 7

\* daysOfWeek.includes(...) on an undefined daysOfWeek is a TypeError.
matchesRecurrenceThrows(event) ==
    /\ event.isRecurring
    /\ event.recurrence.present
    /\ event.recurrence.type \in {"weekly", "custom"}
    /\ ~event.recurrence.daysDefined

\* Mutant: an unrecognized recurrence type is taken to match (fail-open).
matchesRecurrenceFailOpen(event, targetDate) ==
    IF ~event.isRecurring THEN FALSE
    ELSE LET targetDay == getDayOfWeek(targetDate)
             type == IF event.recurrence.present THEN event.recurrence.type
                     ELSE "undefined"
             daysOfWeek == event.recurrence.daysOfWeek
         IN  IF type = "weekly" THEN targetDay \in daysOfWeek
             ELSE IF type = "custom" THEN targetDay \in daysOfWeek
             ELSE TRUE

matchesRecurrence(event, targetDate) ==
    IF ~event.isRecurring THEN FALSE
    ELSE LET targetDay == getDayOfWeek(targetDate)
             type == IF event.recurrence.present THEN event.recurrence.type
                     ELSE "undefined"
             daysOfWeek == event.recurrence.daysOfWeek
         IN  IF type = "daily" THEN TRUE
             ELSE IF type = "weekly" THEN targetDay \in daysOfWeek
             ELSE IF type = "custom" THEN targetDay \in daysOfWeek
             ELSE FALSE

(***************************************************************************)
(* The record store: StudyEvent.find / StudyEventLog.find.                 *)
(***************************************************************************)

\* Stable ascending sort of documents by their date field (.sort({date: 1})
\* and Array.prototype.sort with a date comparator).
\* a.instanceDate ? a.instanceDate.getTime() : 0
SortKey(x) == IF x.date = NoDate THEN 0 ELSE x.date

\* Mutant: no sort, the sequence is left in the order it was built.
SortSkipped(s) == s

SortByDate(s) ==
    LET n == Len(s)
        key == [i \in 1 .. n |-> SortKey(s[i])]
        \* the place a stable sort gives element i: after every element with
        \* a smaller key and every earlier element with the same key
        place == [i \in 1 .. n |->
                    1 + Cardinality({ j \in 1 .. n :
                          \/ key[j] < key[i]
                          \/ key[j] = key[i] /\ j < i })]
    IN  [k \in 1 .. n |-> s[CHOOSE i \in 1 .. n : place[i] = k]]

\* Mutant: the one-time definitions of every user (no userId filter).
FindOneTimeEventsAnyOwner(evs, userId, startDate, endDate) ==
    SelectSeq(evs, LAMBDA e : /\ ~e.isRecurring
                               /\ e.date # NoDate
                               /\ e.date >= startDate
                               /\ e.date <= endDate)

\* Mutant: the one-time definitions up to the end of the month (no $gte).
FindOneTimeEventsNoLowerBound(evs, userId, startDate, endDate) ==
    SelectSeq(evs, LAMBDA e : /\ e.userId = userId
                               /\ ~e.isRecurring
                               /\ e.date # NoDate
                               /\ e.date <= endDate)

\* StudyEvent.find({userId, isRecurring: false, date: {$gte, $lte}}) on the
\* collection evs.
FindOneTimeEventsIn(evs, userId, startDate, endDate) ==
    SelectSeq(evs, LAMBDA e : /\ e.userId = userId
                                 /\ ~e.isRecurring
                                 /\ e.date # NoDate
                                 /\ e.date >= startDate
                                 /\ e.date <= endDate)


FindOneTimeEvents(userId, startDate, endDate) ==
    FindOneTimeEventsIn(events, userId, startDate, endDate)

\* StudyEvent.find({userId, isRecurring: true}) on the collection evs.
FindRecurringEventsIn(evs, userId) ==
    SelectSeq(evs, LAMBDA e : e.userId = userId /\ e.isRecurring)

FindRecurringEvents(userId) == FindRecurringEventsIn(events, userId)

\* StudyEventLog.find({eventId: {$in: eventIds}, date: {$gte, $lte}}) on the
\* collection lgs.
FindLogsIn(lgs, eventIds, startDate, endDate) ==
    SelectSeq(lgs, LAMBDA l : /\ l.eventId \in eventIds
                              /\ l.date >= startDate
                              /\ l.date <= endDate)

\* Mutant: the definition is taken to exist.
FindEventAssumed(eventId, userId) == eventId

\* Mutant: the definition is looked up by _id alone (no userId filter).
FindEventAnyOwner(eventId, userId) ==
    IF eventId \in DOMAIN events THEN eventId ELSE 0

\* StudyEvent.findOne({_id: eventId, userId}): the document's index, or 0.
FindEvent(eventId, userId) ==
    IF /\ eventId \in DOMAIN events
       /\ events[eventId].userId = userId
    THEN eventId ELSE 0

\* Mutant: the day bucket opens after midnight ($gt instead of $gte).
FindLogIndexAfterMidnight(eventId, from, to) ==
    LET hits == { i \in DOMAIN logs : /\ logs[i].eventId = eventId
                                      /\ logs[i].date > from
                                      /\ logs[i].date < to }
    IN  IF hits = {} THEN NoLog ELSE CHOOSE i \in hits : \A j \in hits : i <= j

\* StudyEventLog.findOne({eventId, date: {$gte: from, $lt: to}}): the first
\* matching document's index, or NoLog.
FindLogIndex(eventId, from, to) ==
    LET hits == { i \in DOMAIN logs : /\ logs[i].eventId = eventId
                                      /\ logs[i].date >= from
                                      /\ logs[i].date < to }
    IN  IF hits = {} THEN NoLog ELSE CHOOSE i \in hits : \A j \in hits : i <= j

\* Mutant: no unique index on (eventId, date).
NoUniqueIndex(eventId, date) == FALSE

\* The unique index {eventId: 1, date: 1}: an insert with the key of a
\* stored document is refused with E11000.
DuplicateKey(eventId, date) ==
    \E i \in DOMAIN logs : logs[i].eventId = eventId /\ logs[i].date = date

(***************************************************************************)
(* studyEvent.service.js: the Occurrence Materializer.                     *)
(***************************************************************************)

\* const [year, month] = monthStr.split('-').map(Number);
\* startDate = new Date(year, month - 1, 1); startDate.setHours(0, 0, 0, 0)
MonthStart(token) == SetHoursMidnight(NewLocalDate(token.year, token.month - 1, 1, 0))

\* Mutant: the end of day 1 of the next month instead of day 0.
MonthEndNextDay(token) == NewLocalDate(token.year, token.month, 1, EndOfDayMinute)

\* endDate = new Date(year, month, 0, 23, 59, 59, 999)
MonthEnd(token) == NewLocalDate(token.year, token.month, 0, EndOfDayMinute)

\* { ...event, instanceDate }, before annotation; the occurrence date is
\* carried in instanceDate and, in the response, in date.
Instance(event, instanceDate) ==
    [_id |-> event._id, userId |-> event.userId, title |-> event.title,
     isRecurring |-> event.isRecurring, recurrence |-> event.recurrence,
     instanceDate |-> instanceDate, date |-> instanceDate]

\* for (const event of oneTimeEvents) push {...event, instanceDate: event.date}
OneTimeInstances(oneTimeEvents) ==
    [i \in DOMAIN oneTimeEvents |->
        Instance(oneTimeEvents[i], oneTimeEvents[i].date)]

\* Mutant: the walk advances by half a day.
RECURSIVE ExpandRecurringHalfDays(_, _, _)
ExpandRecurringHalfDays(recurring, currentDate, endDate) ==
    IF currentDate <= endDate
    THEN (IF matchesRecurrence(recurring, currentDate)
          THEN <<Instance(recurring, currentDate)>> ELSE <<>>)
         \o ExpandRecurringHalfDays(recurring, currentDate + MinutesPerDay \div 2,
                                    endDate)
    ELSE <<>>

\* while (currentDate <= endDate) { if (matchesRecurrence(...)) push;
\*                                  currentDate.setDate(getDate() + 1) }
RECURSIVE ExpandRecurring(_, _, _)
ExpandRecurring(recurring, currentDate, endDate) ==
    IF currentDate <= endDate
    THEN (IF matchesRecurrence(recurring, currentDate)
          THEN <<Instance(recurring, currentDate)>> ELSE <<>>)
         \o ExpandRecurring(recurring, SetDateNextDay(currentDate), endDate)
    ELSE <<>>

\* for (const recurring of recurringEvents) { currentDate = startDate; ... }
RECURSIVE RecurringInstances(_, _, _)
RecurringInstances(recurringEvents, startDate, endDate) ==
    IF recurringEvents = <<>> THEN <<>>
    ELSE ExpandRecurring(Head(recurringEvents), startDate, endDate)
         \o RecurringInstances(Tail(recurringEvents), startDate, endDate)

\* eventInstances, sorted by instanceDate.
EventInstances(oneTimeEvents, recurringEvents, startDate, endDate) ==
    SortByDate(OneTimeInstances(oneTimeEvents)
               \o RecurringInstances(recurringEvents, startDate, endDate))

\* Mutant: the ids known when only the one-time events have been read.
InstanceIdsOfOneTime(instances) ==
    { instances[i]._id : i \in { k \in DOMAIN instances : ~instances[k].isRecurring } }

\* [...new Set(eventInstances.map(e => e._id))]
InstanceIds(instances) == { instances[i]._id : i \in DOMAIN instances }

\* `${log.eventId}_${log.date.toISOString().split('T')[0]}`
LogKey(eventId, date) == <<eventId, ISODate(date)>>

\* logsByEventAndDate: for (const log of logs) map[key] = log.completed, so
\* the last log read under a key decides; a key without log is undefined.
LogsByEventAndDate(logsRead) ==
    [i \in DOMAIN logsRead |-> LogKey(logsRead[i].eventId, logsRead[i].date)]

\* key ? logsByEventAndDate[key] || false : false
CompletedInMonth(logsRead, keys, eventId, instanceDate) ==
    IF instanceDate = NoDate THEN FALSE
    ELSE LET key == LogKey(eventId, instanceDate)
             hits == { i \in DOMAIN logsRead : keys[i] = key }
         IN  /\ hits # {}
             /\ logsRead[CHOOSE i \in hits : \A j \in hits : j <= i].completed

\* eventInstances.map(instance => ({...instance, date: instanceDate, completed}))
AnnotateMonth(instances, logsRead) ==
    LET keys == LogsByEventAndDate(logsRead) IN
    [i \in DOMAIN instances |->
        [_id |-> instances[i]._id, userId |-> instances[i].userId,
         title |-> instances[i].title, isRecurring |-> instances[i].isRecurring,
         recurrence |-> instances[i].recurrence,
         instanceDate |-> instances[i].instanceDate,
         date |-> instances[i].instanceDate,
         completed |-> CompletedInMonth(logsRead, keys, instances[i]._id,
                                        instances[i].instanceDate)]]

(***************************************************************************)
(* studyEvent.service.js: the today view.                                  *)
(***************************************************************************)

\* today = new Date(); today.setHours(0, 0, 0, 0)
Today == SetHoursMidnight(now)

\* todayEnd = new Date(today); todayEnd.setHours(23, 59, 59, 999)
TodayEnd == SetHoursEndOfDay(Today)

\* for (const recurring of recurringEvents)
\*   if (matchesRecurrence(recurring, today)) push {...recurring, date: today}
RECURSIVE TodayRecurring(_, _)
TodayRecurring(recurringEvents, today) ==
    IF recurringEvents = <<>> THEN <<>>
    ELSE (IF matchesRecurrence(Head(recurringEvents), today)
          THEN <<[Head(recurringEvents) EXCEPT !.date = today]>> ELSE <<>>)
         \o TodayRecurring(Tail(recurringEvents), today)

\* todayEvents = [...oneTimeEvents, ...matching recurring events]
TodayEvents(oneTimeEvents, recurringEvents, today) ==
    oneTimeEvents \o TodayRecurring(recurringEvents, today)

\* completedMap[event._id] || false: the last log read for the event decides.
CompletedToday(logsRead, eventId) ==
    LET hits == { i \in DOMAIN logsRead : logsRead[i].eventId = eventId }
    IN  /\ hits # {}
        /\ logsRead[CHOOSE i \in hits : \A j \in hits : j <= i].completed

\* todayEvents.map(event => ({...event, completed}))
AnnotateToday(todayEvents, logsRead) ==
    [i \in DOMAIN todayEvents |->
        [_id |-> todayEvents[i]._id, userId |-> todayEvents[i].userId,
         title |-> todayEvents[i].title,
         isRecurring |-> todayEvents[i].isRecurring,
         recurrence |-> todayEvents[i].recurrence,
         date |-> todayEvents[i].date,
         completed |-> CompletedToday(logsRead, todayEvents[i]._id)]]

(***************************************************************************)
(* Requests.  Each client connection runs one request at a time; a request *)
(* is suspended at every record-store call (await), where the requests of  *)
(* other connections may run.                                              *)
(***************************************************************************)
Writer == "w"       \* a connection of either user: creates and completes
Reader == "r"       \* a connection of user A: lists and completes
Procs == {Writer, Reader}
UsersOf(p) == IF p = Reader THEN {"A"} ELSE Users

IdleProc ==
    [op |-> "idle", pc |-> "idle", user |-> "A", eventId |-> 0,
     date |-> NoDateStr, query |-> NoMonthQuery, month |-> NoMonth,
     oneTimeEvents |-> <<>>, recurringEvents |-> <<>>,
     targetDate |-> NoDate, existingLog |-> NoLog,
     status |-> 0, result |-> <<>>]

\* A connection can send its next request once the last one was answered.
Ready(p) == proc[p].pc \in {"idle", "done"}

Answer(p, request, status, result) ==
    proc' = [proc EXCEPT ![p] = [request EXCEPT !.pc = "done", !.status = status,
                                                 !.result = result]]

(***************************************************************************)
(* POST /  (studyEvent.controller.js createStudyEvent, service             *)
(* createStudyEvent, studyEvent.model.js).                                 *)
(***************************************************************************)

\* if (!title || !title.trim())
TitleMissing(body) == Trim(body.title) = <<>>

\* Mutant: only an absent daysOfWeek is refused, an empty array passes.
DaysOfWeekAbsent(body) ==
    /\ body.isRecurring
    /\ body.recurrence.present
    /\ body.recurrence.type \in {"weekly", "custom"}
    /\ ~body.recurrence.daysDefined

\* isRecurring && recurrence && weekly/custom && no daysOfWeek
DaysOfWeekMissing(body) ==
    /\ body.isRecurring
    /\ body.recurrence.present
    /\ body.recurrence.type \in {"weekly", "custom"}
    /\ \/ ~body.recurrence.daysDefined
       \/ body.recurrence.daysOfWeek = {}

\* The service's eventData, with the schema's defaults applied.
EventData(userId, body) ==
    LET r == body.recurrence IN
    [_id |-> Len(events) + 1,
     userId |-> userId,
     title |-> Trim(body.title),
     date |-> IF body.date.form = "absent" THEN NoDate ELSE ParseDate(body.date),
     isRecurring |-> body.isRecurring,
     recurrence |-> IF r.present
                    THEN Recurrence(IF r.type = "undefined" THEN "daily" ELSE r.type,
                                    IF r.daysDefined THEN r.daysOfWeek ELSE {})
                    ELSE Recurrence("daily", {})]

\* recurrenceSchema: the enum of type and the validator of daysOfWeek.
SchemaValid(doc) ==
    /\ doc.recurrence.type \in {"daily", "weekly", "custom"}
    /\ \A day \in doc.recurrence.daysOfWeek : day >= 0 /\ day <= 6
    /\ doc.title # <<>>

CreateStudyEvent(p, userId, body) ==
    LET request == [IdleProc EXCEPT !.op = "create", !.user = userId]
        doc == EventData(userId, body)
    IN  /\ Ready(p)
        /\ IF TitleMissing(body) \/ DaysOfWeekMissing(body) \/ ~SchemaValid(doc)
           THEN /\ Answer(p, request, BAD_REQUEST, <<>>)
                /\ UNCHANGED events
           ELSE /\ Len(events) < MaxEvents
                /\ events' = Append(events, doc)
                /\ Answer(p, request, CREATED, <<doc>>)
        /\ UNCHANGED <<TZ, now, logs, evalIn, evalOut>>

(***************************************************************************)
(* GET /?month=  (controller getStudyEvents, service                       *)
(* getStudyEventsForMonth): three record-store reads.                      *)
(***************************************************************************)

\* if (!month)
MonthMissing(month) == month = NoMonthQuery

IsDigit(c) == \E k \in DOMAIN DigitChars : DigitChars[k] = c

\* /^\d{4}-\d{2}$/.test(month)
MonthRegexTest(month) ==
    /\ Len(month) = 7
    /\ \A i \in {1, 2, 3, 4, 6, 7} : IsDigit(month[i])
    /\ month[5] = "-"

\* Number() of a string of decimal digits.
RECURSIVE NumberOf(_)
NumberOf(ds) ==
    IF ds = << >> THEN 0
    ELSE 10 * NumberOf(SubSeq(ds, 1, Len(ds) - 1))
         + (CHOOSE k \in 0 .. 9 : Digit(k) = ds[Len(ds)])

\* const [year, month] = monthStr.split('-').map(Number)
SplitMonth(monthStr) ==
    LET dash == CHOOSE i \in DOMAIN monthStr :
                   monthStr[i] = "-" /\ \A j \in 1 .. i - 1 : monthStr[j] # "-"
    IN  [year |-> NumberOf(SubSeq(monthStr, 1, dash - 1)),
         month |-> NumberOf(SubSeq(monthStr, dash + 1, Len(monthStr)))]

GetStudyEventsStart(p, userId, month) ==
    LET request == [IdleProc EXCEPT !.op = "month", !.user = userId,
                                    !.query = month]
        token == SplitMonth(month)
    IN  /\ Ready(p)
        /\ IF MonthMissing(month) \/ ~MonthRegexTest(month)
           THEN Answer(p, request, BAD_REQUEST, <<>>)
           ELSE proc' = [proc EXCEPT ![p] =
                   [request EXCEPT !.pc = "m_recurring", !.month = token,
                      !.oneTimeEvents = SortByDate(FindOneTimeEvents(
                                  userId, MonthStart(token), MonthEnd(token)))]]
        /\ UNCHANGED <<TZ, now, events, logs, evalIn, evalOut>>

GetStudyEventsRecurring(p) ==
    /\ proc[p].pc = "m_recurring"
    /\ proc' = [proc EXCEPT ![p].pc = "m_logs",
                            ![p].recurringEvents = FindRecurringEvents(proc[p].user)]
    /\ UNCHANGED <<TZ, now, events, logs, evalIn, evalOut>>

\* What the month request answers when its log read sees the logs lgs.
MonthResultOn(lgs, oneTimeEvents, recurringEvents, token) ==
    LET startDate == MonthStart(token)
        endDate == MonthEnd(token)
        eventInstances == EventInstances(oneTimeEvents, recurringEvents,
                                         startDate, endDate)
    IN  AnnotateMonth(eventInstances,
                      FindLogsIn(lgs, InstanceIds(eventInstances),
                                 startDate, endDate))

MonthResult(oneTimeEvents, recurringEvents, token) ==
    MonthResultOn(logs, oneTimeEvents, recurringEvents, token)

\* Mutant: the view answers and drops the completion records.
GetStudyEventsLogsPurging(p) ==
    /\ proc[p].pc = "m_logs"
    /\ Answer(p, proc[p], OK,
              MonthResult(proc[p].oneTimeEvents, proc[p].recurringEvents,
                          proc[p].month))
    /\ logs' = << >>
    /\ UNCHANGED <<TZ, now, events, evalIn, evalOut>>

GetStudyEventsLogs(p) ==
    /\ proc[p].pc = "m_logs"
    /\ Answer(p, proc[p], OK,
              MonthResult(proc[p].oneTimeEvents, proc[p].recurringEvents,
                          proc[p].month))
    /\ UNCHANGED <<TZ, now, events, logs, evalIn, evalOut>>

(***************************************************************************)
(* GET /today  (controller and service getTodayStudyEvents).               *)
(***************************************************************************)
GetTodayStart(p, userId) ==
    LET request == [IdleProc EXCEPT !.op = "today", !.user = userId,
                                    !.targetDate = Today]
    IN  /\ Ready(p)
        /\ proc' = [proc EXCEPT ![p] =
              [request EXCEPT !.pc = "t_recurring",
                 !.oneTimeEvents = FindOneTimeEvents(userId, Today, TodayEnd)]]
        /\ UNCHANGED <<TZ, now, events, logs, evalIn, evalOut>>

GetTodayRecurring(p) ==
    /\ proc[p].pc = "t_recurring"
    /\ proc' = [proc EXCEPT ![p].pc = "t_logs",
                            ![p].recurringEvents = FindRecurringEvents(proc[p].user)]
    /\ UNCHANGED <<TZ, now, events, logs, evalIn, evalOut>>

\* What the today request answers when its log read sees the logs lgs.
TodayResultOn(lgs, oneTimeEvents, recurringEvents, today) ==
    LET todayEvents == TodayEvents(oneTimeEvents, recurringEvents, today)
        eventIds == { todayEvents[i]._id : i \in DOMAIN todayEvents }
    IN  AnnotateToday(todayEvents,
                      FindLogsIn(lgs, eventIds, today, SetHoursEndOfDay(today)))

TodayResult(oneTimeEvents, recurringEvents, today) ==
    TodayResultOn(logs, oneTimeEvents, recurringEvents, today)

GetTodayLogs(p) ==
    /\ proc[p].pc = "t_logs"
    /\ Answer(p, proc[p], OK,
              TodayResult(proc[p].oneTimeEvents, proc[p].recurringEvents,
                          proc[p].targetDate))
    /\ UNCHANGED <<TZ, now, events, logs, evalIn, evalOut>>

(***************************************************************************)
(* POST /:eventId/complete  (controller and service completeStudyEvent).   *)
(***************************************************************************)

\* Mutant: the date is used as sent, with its time of day.
TargetDateAsSent(date) == IF date.form = "absent" THEN now ELSE ParseDate(date)

\* targetDate = date ? new Date(date) : new Date(); setHours(0, 0, 0, 0)
TargetDate(date) ==
    SetHoursMidnight(IF date.form = "absent" THEN now ELSE ParseDate(date))

\* await StudyEvent.findOne({_id: eventId, userId}); if (!event) throw
CompleteStart(p, userId, eventId, date) ==
    LET request == [IdleProc EXCEPT !.op = "complete", !.user = userId,
                      !.eventId = eventId, !.date = date]
    IN  /\ Ready(p)
        /\ IF FindEvent(eventId, userId) = 0
           THEN Answer(p, request, NOT_FOUND, <<>>)
           ELSE proc' = [proc EXCEPT ![p] = [request EXCEPT !.pc = "c_log"]]
        /\ UNCHANGED <<TZ, now, events, logs, evalIn, evalOut>>

\* await StudyEventLog.findOne({eventId, date: {$gte: targetDate, $lt: +24h}})
CompleteFindLog(p) ==
    LET targetDate == TargetDate(proc[p].date)
    IN  /\ proc[p].pc = "c_log"
        /\ proc' = [proc EXCEPT ![p].pc = "c_write",
                      ![p].targetDate = targetDate,
                      ![p].existingLog = FindLogIndex(proc[p].eventId, targetDate,
                                            targetDate + MinutesPerDay)]
        /\ UNCHANGED <<TZ, now, events, logs, evalIn, evalOut>>

\* Mutant: saving the record found removes it from the collection.
SaveExistingLogRemoving(p) ==
    LET i == proc[p].existingLog
    IN  /\ logs' = SubSeq(logs, 1, i - 1) \o SubSeq(logs, i + 1, Len(logs))
        /\ Answer(p, proc[p], OK, <<logs[i]>>)

\* Mutant: saving the record found flips its flag.
SaveExistingLogToggling(p) ==
    LET i == proc[p].existingLog
    IN  /\ logs' = [logs EXCEPT ![i].completed = ~logs[i].completed]
        /\ Answer(p, proc[p], OK, <<logs'[i]>>)

\* existingLog.completed = true; await existingLog.save()
SaveExistingLog(p) ==
    LET i == proc[p].existingLog
    IN  /\ logs' = [logs EXCEPT ![i].completed = TRUE]
        /\ Answer(p, proc[p], OK, <<logs'[i]>>)

\* Mutant: the record is written but the call answers with an error.
CreateLogUnacknowledged(p) ==
    LET doc == [_id |-> Len(logs) + 1, eventId |-> proc[p].eventId,
                date |-> proc[p].targetDate, completed |-> TRUE]
    IN  /\ Len(logs) < MaxLogs
        /\ logs' = Append(logs, doc)
        /\ Answer(p, proc[p], INTERNAL_SERVER_ERROR, <<>>)

\* Mutant: a create refused by the unique index is attempted again, as an
\* update, from the record lookup.
CreateLogRetrying(p) ==
    LET doc == [_id |-> Len(logs) + 1, eventId |-> proc[p].eventId,
                date |-> proc[p].targetDate, completed |-> TRUE]
    IN  IF DuplicateKey(doc.eventId, doc.date)
        THEN /\ proc' = [proc EXCEPT ![p].pc = "c_log"]
             /\ UNCHANGED logs
        ELSE /\ Len(logs) < MaxLogs
             /\ logs' = Append(logs, doc)
             /\ Answer(p, proc[p], OK, <<doc>>)

\* Mutant: a create refused by the unique index answers with the record
\* already stored.
CreateLogReturningExisting(p) ==
    LET doc == [_id |-> Len(logs) + 1, eventId |-> proc[p].eventId,
                date |-> proc[p].targetDate, completed |-> TRUE]
    IN  IF DuplicateKey(doc.eventId, doc.date)
        THEN /\ Answer(p, proc[p], OK,
                       SelectSeq(logs, LAMBDA l : /\ l.eventId = doc.eventId
                                                  /\ l.date = doc.date))
             /\ UNCHANGED logs
        ELSE /\ Len(logs) < MaxLogs
             /\ logs' = Append(logs, doc)
             /\ Answer(p, proc[p], OK, <<doc>>)

\* StudyEventLog.create({eventId, date: targetDate, completed: true})
CreateLog(p) ==
    LET doc == [_id |-> Len(logs) + 1, eventId |-> proc[p].eventId,
                date |-> proc[p].targetDate, completed |-> TRUE]
    IN  IF DuplicateKey(doc.eventId, doc.date)
        THEN /\ Answer(p, proc[p], CONFLICT, <<>>)
             /\ UNCHANGED logs
        ELSE /\ Len(logs) < MaxLogs
             /\ logs' = Append(logs, doc)
             /\ Answer(p, proc[p], OK, <<doc>>)

CompleteWrite(p) ==
    /\ proc[p].pc = "c_write"
    /\ IF proc[p].existingLog # NoLog THEN SaveExistingLog(p) ELSE CreateLog(p)
    /\ UNCHANGED <<TZ, now, events, evalIn, evalOut>>

(***************************************************************************)
(* The specification of the service.                                       *)
(***************************************************************************)
EventIds == 1 .. MaxEvents

NoEval == [event |-> [isRecurring |-> FALSE, recurrence |-> NoRecurrence],
           date |-> NoDate]

Init ==
    /\ TZ \in TZChoices
    /\ now \in NowChoices
    /\ events = <<>>
    /\ logs = <<>>
    /\ proc = [p \in Procs |-> IdleProc]
    /\ evalIn = NoEval
    /\ evalOut = "idle"

Next ==
    \/ \E c \in CreateCalls : CreateStudyEvent(Writer, c[1], c[2])
    \/ \E u \in UsersOf(Reader), q \in MonthQueries : GetStudyEventsStart(Reader, u, q)
    \/ GetStudyEventsRecurring(Reader)
    \/ GetStudyEventsLogs(Reader)
    \/ \E u \in UsersOf(Reader) : GetTodayStart(Reader, u)
    \/ GetTodayRecurring(Reader)
    \/ GetTodayLogs(Reader)
    \/ \E p \in Procs, e \in EventIds, d \in CompleteDates :
           \E u \in UsersOf(p) : CompleteStart(p, u, e, d)
    \/ \E p \in Procs : CompleteFindLog(p)
    \/ \E p \in Procs : CompleteWrite(p)

Spec == Init /\ [][Next]_vars

(***************************************************************************)
(* The service over a record store whose calls can fail.  A failed call    *)
(* changes nothing in the store and throws; the controller's catch hands   *)
(* the error to the error handler, which answers 500.                      *)
(***************************************************************************)

\* The error response carries nothing of the request but who sent it.
FailedRequest(userId) == [IdleProc EXCEPT !.op = "complete", !.user = userId]

\* StudyEvent.findOne throws: the request ends at its first store call.
CompleteLookupFailure(p, userId) ==
    /\ Ready(p)
    /\ Answer(p, FailedRequest(userId), INTERNAL_SERVER_ERROR, <<>>)
    /\ UNCHANGED <<TZ, now, events, logs, evalIn, evalOut>>

\* StudyEventLog.findOne, existingLog.save or StudyEventLog.create throws.
CompleteStoreFailure(p) ==
    /\ proc[p].pc \in {"c_log", "c_write"}
    /\ Answer(p, FailedRequest(proc[p].user), INTERNAL_SERVER_ERROR, <<>>)
    /\ UNCHANGED <<TZ, now, events, logs, evalIn, evalOut>>

NextFail ==
    \/ Next
    \/ \E p \in Procs : \E u \in UsersOf(p) : CompleteLookupFailure(p, u)
    \/ \E p \in Procs : CompleteStoreFailure(p)

SpecFail == Init /\ [][NextFail]_vars

(***************************************************************************)
(* The month view over the calendar: one user's daily and one-off          *)
(* definitions listed for month parameters of every kind (each month of a  *)
(* leap year, Februaries of common, leap and century years, years below    *)
(* 100, month numbers outside 1..12, strings of another shape, none).      *)
(***************************************************************************)
DailyBody == Body(Title, NoDateStr, TRUE, Recurrence("daily", {}))

RangeBodies ==
    { DailyBody,
      Body(Title, DateOnly(2025, 1, 10), FALSE, NoRecurrence),
      Body(Title, DateOnly(2024, 2, 29), FALSE, NoRecurrence) }

RangeQueries ==
    { MonthQuery(2024, m) : m \in 1 .. 12 }
    \cup { MonthQuery(y, 2) : y \in {1900, 2000, 2023, 2100} }
    \cup { MonthQuery(0, 2), MonthQuery(24, 2), MonthQuery(99, 12),
           MonthQuery(4000, 12) }
    \cup { MonthQuery(2024, 0), MonthQuery(2024, 13), MonthQuery(2024, 99) }
    \cup { NoMonthQuery,
           <<"2", "0", "2", "4", "-", "3">>,
           <<"2", "4", "-", "0", "3">>,
           <<"2", "0", "2", "4", "/", "0", "3">>,
           <<"2", "0", "2", "4", "-", "0", "3", "-", "1", "5">>,
           <<"M", "a", "r", "c", "-", "2", "4">> }

RangeNext ==
    \/ \E b \in RangeBodies : CreateStudyEvent(Writer, "A", b)
    \/ \E q \in RangeQueries : GetStudyEventsStart(Reader, "A", q)
    \/ GetStudyEventsRecurring(Reader)
    \/ GetStudyEventsLogs(Reader)

SpecRange == Init /\ [][RangeNext]_vars

(***************************************************************************)
(* Completions by the owner at every time of day: the clock early and     *)
(* late in the UTC day, and dates sent as instants with a zone and as a    *)
(* date-time without one (read as local time).                             *)
(***************************************************************************)
DateTimeLocal(y, m, d, mi) == [form |-> "local", y |-> y, m |-> m, d |-> d, minute |-> mi]

DayNowChoices ==
    { DaysFromCivil(2024, 3, 15) * MinutesPerDay + mi : mi \in {30, 1410} }

DayCompleteDates ==
    { NoDateStr, DateTimeZ(2024, 3, 15, 30), DateTimeZ(2024, 3, 15, 1410),
      DateTimeLocal(2024, 3, 15, 1439) }

DayBodies == { OneOffBody, DailyBody }

DayInit ==
    /\ TZ \in TZChoices
    /\ now \in DayNowChoices
    /\ events = <<>>
    /\ logs = <<>>
    /\ proc = [p \in Procs |-> IdleProc]
    /\ evalIn = NoEval
    /\ evalOut = "idle"

DayNext ==
    \/ \E b \in DayBodies : CreateStudyEvent(Writer, "A", b)
    \/ \E p \in Procs, e \in EventIds, d \in DayCompleteDates :
           CompleteStart(p, "A", e, d)
    \/ \E p \in Procs : CompleteFindLog(p)
    \/ \E p \in Procs : CompleteWrite(p)

SpecDay == DayInit /\ [][DayNext]_vars

(***************************************************************************)
(* One user's calendar over time: the owner creates a one-off and a weekly *)
(* definition on one connection, and on the other reads the month and      *)
(* completes days, again and again.                                        *)
(***************************************************************************)
WeeklyBody == Body(Title, NoDateStr, TRUE, Recurrence("weekly", {1, 3, 5}))

CalendarBodies == { OneOffBody, WeeklyBody }

CalendarNext ==
    \/ \E b \in CalendarBodies : CreateStudyEvent(Writer, "A", b)
    \/ \E t \in MonthTokens :
          GetStudyEventsStart(Reader, "A", MonthQuery(t.year, t.month))
    \/ GetStudyEventsRecurring(Reader)
    \/ GetStudyEventsLogs(Reader)
    \/ \E e \in EventIds, d \in CompleteDates : CompleteStart(Reader, "A", e, d)
    \/ CompleteFindLog(Reader)
    \/ CompleteWrite(Reader)

SpecCalendar == Init /\ [][CalendarNext]_vars

(***************************************************************************)
(* The Evaluator on its own: matchesRecurrence applied to one definition   *)
(* and one candidate date, drawn from every shape of definition a caller   *)
(* can hand it (stored documents, and raw objects with a missing or        *)
(* unknown recurrence).                                                    *)
(***************************************************************************)
EvalRecurrences ==
    { NoRecurrence,
      Recurrence("daily", {}),
      Recurrence("daily", {2}),
      Recurrence("weekly", {1, 3, 5}),
      Recurrence("custom", {1, 3, 5}),
      Recurrence("weekly", {}),
      Recurrence("custom", {0, 6}),
      Recurrence("weekly", {0, 1, 2, 3, 4, 5, 6}),
      Recurrence("monthly", {1, 3, 5}),
      Recurrence("undefined", {0, 1, 2, 3, 4, 5, 6}),
      [present |-> TRUE, type |-> "monthly", daysDefined |-> FALSE, daysOfWeek |-> {}],
      [present |-> TRUE, type |-> "undefined", daysDefined |-> FALSE, daysOfWeek |-> {}],
      [present |-> TRUE, type |-> "weekly", daysDefined |-> FALSE, daysOfWeek |-> {}] }

EvalDefinitions ==
    { [isRecurring |-> r, recurrence |-> rec] : r \in BOOLEAN, rec \in EvalRecurrences }

\* A week of candidate dates from 2024-03-10, early and late in the UTC day.
EvalDates ==
    { (DaysFromCivil(2024, 3, 10) + k) * MinutesPerDay + m :
        k \in 0 .. 6, m \in {0, 1200} }

EvalInit ==
    /\ TZ \in TZChoices
    /\ now \in NowChoices
    /\ events = <<>>
    /\ logs = <<>>
    /\ proc = [p \in Procs |-> IdleProc]
    /\ evalIn \in { [event |-> e, date |-> d] : e \in EvalDefinitions, d \in EvalDates }
    /\ evalOut = "idle"

Evaluate ==
    /\ evalOut = "idle"
    /\ evalOut' = IF matchesRecurrenceThrows(evalIn.event) THEN "TypeError"
                  ELSE IF matchesRecurrence(evalIn.event, evalIn.date) THEN "true"
                  ELSE "false"
    /\ UNCHANGED <<TZ, now, events, logs, proc, evalIn>>

EvalNext == Evaluate

SpecEval == EvalInit /\ [][EvalNext]_vars

(***************************************************************************)
(* Properties of the Evaluator (checked under SpecEval).                   *)
(***************************************************************************)

\* The day of the week of a date's local calendar day, counted from a known
\* Sunday (2024-03-10); 0 = Sunday.
RefWeekday(d) == (LocalDay(d) - DaysFromCivil(2024, 3, 10)) % 7

\* The reference predicate of the Evaluator.
RefFires(definition, d) ==
    /\ definition.isRecurring
    /\ definition.recurrence.present
    /\ \/ definition.recurrence.type = "daily"
       \/ /\ definition.recurrence.type \in {"weekly", "custom"}
          /\ RefWeekday(d) \in definition.recurrence.daysOfWeek

\* A weekly or custom rule carries its daysOfWeek array, as every stored
\* document does.
DaysOfWeekPresent(definition) ==
    (definition.recurrence.present
       /\ definition.recurrence.type \in {"weekly", "custom"})
    => definition.recurrence.daysDefined

BoolStr(b) == IF b THEN "true" ELSE "false"

\* C7: for every definition (with its daysOfWeek array where the rule is
\* weekly or custom) and every candidate date, matchesRecurrence returns what
\* the reference predicate says: recurring and (daily, or weekly/custom and
\* the local weekday of the date, 0 = Sunday, is in daysOfWeek).  weekly and
\* custom therefore agree, and daily is true on every date.
C7_EvaluatorMatchesReference ==
    (evalOut # "idle" /\ DaysOfWeekPresent(evalIn.event))
    => evalOut = BoolStr(RefFires(evalIn.event, evalIn.date))

\* A custom rule fired on a date whose local day is not its UTC day.
C7_Witness ==
    /\ evalOut = "true"
    /\ evalIn.event.recurrence.type = "custom"
    /\ evalIn.event.recurrence.daysOfWeek = {1, 3, 5}
    /\ LocalDay(evalIn.date) # evalIn.date \div MinutesPerDay

\* The definition is one-off, or its recurrence type is missing or unknown.
Unrecognized(definition) ==
    \/ ~definition.isRecurring
    \/ ~definition.recurrence.present
    \/ definition.recurrence.type \notin {"daily", "weekly", "custom"}

\* C8: the Evaluator is fail-closed: for a one-off definition, and for a
\* recurring definition whose recurrence type is missing or unknown, it
\* returns false and does not raise.
C8_FailClosed ==
    (evalOut # "idle" /\ Unrecognized(evalIn.event)) => evalOut = "false"

\* A recurring definition of unknown type, without daysOfWeek, was evaluated.
C8_Witness ==
    /\ evalOut = "false"
    /\ evalIn.event.isRecurring
    /\ evalIn.event.recurrence.type = "monthly"
    /\ ~evalIn.event.recurrence.daysDefined

(***************************************************************************)
(* Properties of the service (checked under Spec).                         *)
(***************************************************************************)

\* The logs stored for a definition on a local calendar day.
LogsFor(eventId, day) ==
    { i \in DOMAIN logs : logs[i].eventId = eventId /\ LocalDay(logs[i].date) = day }

\* The definition exists and belongs to the user.
Owned(eventId, userId) ==
    eventId \in DOMAIN events /\ events[eventId].userId = userId

\* C1: in every reachable state, whatever the interleaving of create and
\* complete requests, the store holds at most one completion record for each
\* (eventId, calendar day).
C1_AtMostOneRecordPerDay ==
    \A i, j \in DOMAIN logs :
        (logs[i].eventId = logs[j].eventId
           /\ LocalDay(logs[i].date) = LocalDay(logs[j].date))
        => i = j

\* Two complete requests for the same definition and day raced: both looked
\* for a record before either wrote, one created it, the other was refused.
C1_Witness ==
    /\ proc[Writer].op = "complete" /\ proc[Reader].op = "complete"
    /\ proc[Writer].pc = "done" /\ proc[Reader].pc = "done"
    /\ proc[Writer].eventId = proc[Reader].eventId
    /\ proc[Writer].targetDate = proc[Reader].targetDate
    /\ proc[Writer].existingLog = NoLog /\ proc[Reader].existingLog = NoLog
    /\ {proc[Writer].status, proc[Reader].status} = {OK, CONFLICT}

\* C2: a complete request that starts its record lookup when a record for its
\* (definition, day) is stored (a second call, after the first returned) finds
\* that record, creates nothing, and answers with that same record, completed;
\* the day keeps exactly one record.
C2_IdempotentCompletion ==
    [][ \A p \in Procs :
          /\ (proc[p].pc = "c_log" /\ proc'[p].pc = "c_write"
                /\ LogsFor(proc[p].eventId,
                           LocalDay(TargetDate(proc[p].date))) # {})
             => proc'[p].existingLog
                  \in LogsFor(proc[p].eventId, LocalDay(TargetDate(proc[p].date)))
          /\ (proc[p].pc = "c_write" /\ proc'[p].pc = "done"
                /\ proc[p].existingLog # NoLog)
             => LET i == proc[p].existingLog IN
                /\ Len(logs') = Len(logs)
                /\ proc'[p].status = OK
                /\ proc'[p].result = <<logs'[i]>>
                /\ logs'[i]._id = logs[i]._id
                /\ logs'[i].completed
                /\ Cardinality(LogsFor(proc[p].eventId,
                                       LocalDay(proc[p].targetDate))') = 1
      ]_vars

\* A second complete call for a day found the first call's record.
C2_Witness ==
    \E p \in Procs :
        /\ proc[p].op = "complete" /\ proc[p].pc = "done"
        /\ proc[p].existingLog # NoLog
        /\ proc[p].status = OK
        /\ Len(logs) = 1

\* The step is the arrival of a complete request on connection p.
CompleteArrives(p) ==
    /\ Ready(p)
    /\ proc'[p] # proc[p]
    /\ proc'[p].op = "complete"

\* C3: a complete request for a definition that does not exist or belongs to
\* another user is answered NotFound and writes nothing: every write to the
\* completion records is made by a request that resolved a definition of its
\* own user.
C3_NotFoundBeforeAnyWrite ==
    [][ /\ \A p \in Procs :
             (CompleteArrives(p) /\ ~Owned(proc'[p].eventId, proc'[p].user))
             => /\ proc'[p].pc = "done"
                /\ proc'[p].status = NOT_FOUND
                /\ logs' = logs
        /\ (logs' # logs)
           => \E p \in Procs :
                 /\ proc[p].pc = "c_write" /\ proc'[p].pc = "done"
                 /\ Owned(proc[p].eventId, proc[p].user)
      ]_vars

\* User B asked to complete a definition of user A, with records stored.
C3_Witness ==
    /\ proc[Writer].op = "complete" /\ proc[Writer].pc = "done"
    /\ proc[Writer].status = NOT_FOUND
    /\ proc[Writer].user = "B"
    /\ proc[Writer].eventId \in DOMAIN events
    /\ events[proc[Writer].eventId].userId = "A"
    /\ logs # <<>>

\* The month view and the today view of a user, read at once from the
\* collections evs and lgs.
ViewMonthOn(evs, lgs, userId, token) ==
    MonthResultOn(lgs,
                  SortByDate(FindOneTimeEventsIn(evs, userId, MonthStart(token),
                                                 MonthEnd(token))),
                  FindRecurringEventsIn(evs, userId), token)

ViewTodayOn(evs, lgs, userId) ==
    TodayResultOn(lgs, FindOneTimeEventsIn(evs, userId, Today, TodayEnd),
                  FindRecurringEventsIn(evs, userId), Today)

ViewMonth(userId, token) == ViewMonthOn(events, logs, userId, token)

ViewToday(userId) == ViewTodayOn(events, logs, userId)

\* The step is taken by a request of the user and changes the store.
WritesAs(userId) ==
    /\ events' # events \/ logs' # logs
    /\ \E p \in Procs : proc'[p] # proc[p] /\ proc'[p].user = userId

\* C4: the month and today views answered to a user hold only occurrences of
\* that user's definitions, and no create or complete request of another user
\* changes them (nor the completed flag of any of their occurrences).
C4_CrossOwnerIsolation ==
    [][ /\ \A p \in Procs :
             (proc'[p] # proc[p] /\ proc'[p].pc = "done"
                /\ proc'[p].op \in {"month", "today"})
             => \A i \in DOMAIN proc'[p].result :
                   /\ proc'[p].result[i].userId = proc'[p].user
                   /\ Owned(proc'[p].result[i]._id, proc'[p].user)
        /\ WritesAs("B")
           => /\ \A t \in MonthTokens :
                    ViewMonthOn(events', logs', "A", t) = ViewMonth("A", t)
              /\ ViewTodayOn(events', logs', "A") = ViewToday("A")
      ]_vars

\* User A was answered a month view with occurrences while user B holds a
\* definition with a completion record.
C4_Witness ==
    /\ proc[Reader].op = "month" /\ proc[Reader].pc = "done"
    /\ proc[Reader].result # <<>>
    /\ \E i \in DOMAIN logs : events[logs[i].eventId].userId = "B"

\* The calendar, for reference: the length of a month and the local midnight
\* of a day.
RefDaysInMonth(y, m) ==
    IF m \in {1, 3, 5, 7, 8, 10, 12} THEN 31
    ELSE IF m \in {4, 6, 9, 11} THEN 30
    ELSE IF (y % 4 = 0 /\ y % 100 # 0) \/ y % 400 = 0 THEN 29 ELSE 28

RefLocalMidnight(y, m, d) == DaysFromCivil(y, m, d) * MinutesPerDay - TZ

\* The local calendar date <<y, m, d>> of a time value.
RefLocalDate(t) == CivilFromDays(LocalDay(t))

March2024 == MonthToken(2024, 3)
MonWedFri == Recurrence("weekly", {1, 3, 5})

\* C5: round trip.  After complete(e, owner, "2024-03-15") on a definition
\* with an occurrence on 2024-03-15 and no other completion, the month view of
\* 2024-03 holds an occurrence of e dated 2024-03-15 with completed = true,
\* and every other occurrence of e in it has completed = false.
C5_RoundTrip ==
    \A p \in Procs :
        (/\ proc[p].op = "complete" /\ proc[p].pc = "done"
         /\ proc[p].status = OK
         /\ proc[p].date = DateOnly(2024, 3, 15)
         /\ Len(logs) = 1)
        => LET e == proc[p].eventId
               view == ViewMonth(proc[p].user, March2024)
               onThe15th == { i \in DOMAIN view :
                                /\ view[i]._id = e
                                /\ RefLocalDate(view[i].date) = <<2024, 3, 15>> }
           IN  onThe15th # {}
               => /\ \E i \in onThe15th : view[i].completed
                  /\ \A i \in DOMAIN view :
                        (view[i]._id = e /\ i \notin onThe15th)
                        => ~view[i].completed

\* C6: for a recurring definition read by a month request, the answer holds
\* one occurrence of it for exactly the days of that month on which the
\* Evaluator fires, each day once and no day outside the month, whatever date
\* the definition stores; weekly on {1, 3, 5} over March 2024 gives the 13
\* Mondays, Wednesdays and Fridays.
C6_RecurringExpansion ==
    \A p \in Procs :
        (proc[p].op = "month" /\ proc[p].pc = "done")
        => LET y == proc[p].month.year
               m == proc[p].month.month
               result == proc[p].result
           IN  /\ \A i \in DOMAIN result :
                     result[i].isRecurring
                     => \E k \in DOMAIN proc[p].recurringEvents :
                           proc[p].recurringEvents[k]._id = result[i]._id
               /\ \A k \in DOMAIN proc[p].recurringEvents :
                     LET r == proc[p].recurringEvents[k]
                         occ == { i \in DOMAIN result : result[i]._id = r._id }
                         fired == { d \in 1 .. RefDaysInMonth(y, m) :
                                      matchesRecurrence(r, RefLocalMidnight(y, m, d)) }
                     IN  /\ { result[i].date : i \in occ }
                              = { RefLocalMidnight(y, m, d) : d \in fired }
                         /\ Cardinality(occ) = Cardinality(fired)
                         /\ (proc[p].month = March2024 /\ r.recurrence = MonWedFri)
                            => /\ Cardinality(occ) = 13
                               /\ { RefLocalDate(result[i].date) : i \in occ }
                                    = { <<2024, 3, d>> :
                                          d \in {1, 4, 6, 8, 11, 13, 15, 18, 20,
                                                 22, 25, 27, 29} }

\* A month request for March 2024 answered the 13 occurrences of a weekly
\* definition that stores a date.
C6_Witness ==
    /\ proc[Reader].op = "month" /\ proc[Reader].pc = "done"
    /\ proc[Reader].month = March2024
    /\ \E k \in DOMAIN proc[Reader].recurringEvents :
          LET r == proc[Reader].recurringEvents[k] IN
          /\ r.recurrence = MonWedFri
          /\ r.date # NoDate
          /\ Cardinality({ i \in DOMAIN proc[Reader].result :
                             proc[Reader].result[i]._id = r._id }) = 13

\* The one-off definitions of a user whose fixedDate lies in the month, by
\* the local calendar.
OneOffsOfMonth(userId, token) ==
    { e \in DOMAIN events :
        /\ events[e].userId = userId
        /\ ~events[e].isRecurring
        /\ events[e].date # NoDate
        /\ RefLocalDate(events[e].date)[1] = token.year
        /\ RefLocalDate(events[e].date)[2] = token.month }

\* C9: a one-off definition with a fixedDate gives exactly one occurrence in
\* the view of the month its fixedDate lies in, and none in the view of any
\* other month, whatever its recurrence field holds; the occurrence carries
\* the stored fixedDate unchanged.
C9_OneOffOncePerMonth ==
    [][ \A p \in Procs :
          /\ (Ready(p) /\ proc'[p].pc = "m_recurring")
             => LET read == proc'[p].oneTimeEvents IN
                /\ { read[i]._id : i \in DOMAIN read }
                     = OneOffsOfMonth(proc'[p].user, proc'[p].month)
                /\ Len(read) = Cardinality(OneOffsOfMonth(proc'[p].user,
                                                          proc'[p].month))
          /\ (proc[p].pc = "m_logs" /\ proc'[p].pc = "done")
             => LET read == proc[p].oneTimeEvents
                    result == proc'[p].result
                    oneOffs == { i \in DOMAIN result : ~result[i].isRecurring }
                IN  /\ Cardinality(oneOffs) = Len(read)
                    /\ \A k \in DOMAIN read :
                          \E i \in oneOffs :
                             /\ result[i]._id = read[k]._id
                             /\ result[i].date = events[read[k]._id].date
                             /\ result[i].instanceDate = events[read[k]._id].date
      ]_vars

\* A month view holds the one occurrence of a one-off definition that carries
\* a recurrence rule, while the user owns a second one-off of another month.
C9_Witness ==
    /\ proc[Reader].op = "month" /\ proc[Reader].pc = "done"
    /\ Len(proc[Reader].result) = 1
    /\ ~proc[Reader].result[1].isRecurring
    /\ proc[Reader].result[1].recurrence.type = "custom"
    /\ Len(events) = 2
    /\ \A e \in DOMAIN events : events[e].userId = "A" /\ ~events[e].isRecurring

\* C10: every occurrence in a month view has completed = true exactly when a
\* completion record for its definition and calendar day is stored at the
\* time the view reads the completion records.
C10_CompletedIffRecord ==
    [][ \A p \in Procs :
          (proc[p].pc = "m_logs" /\ proc'[p].pc = "done")
          => \A i \in DOMAIN proc'[p].result :
                proc'[p].result[i].completed
                <=> LogsFor(proc'[p].result[i]._id,
                            LocalDay(proc'[p].result[i].date)) # {}
      ]_vars

\* The calendar day <<y, m, d>> a complete request names: the day written in
\* its date string, or the server's current day when it carries no date.
NamedDay(date) ==
    IF date.form = "absent" THEN RefLocalDate(now) ELSE <<date.y, date.m, date.d>>

\* The (definition, day) pairs of the occurrences a month view reports as
\* completed.
CompletedPairs(view) ==
    { <<view[i]._id, RefLocalDate(view[i].date)>> :
        i \in { j \in DOMAIN view : view[j].completed } }

\* C11: complete(e, owner, D1) creates or modifies only the record of
\* (e, D1): the definitions and every other record are unchanged, and in the
\* month views no occurrence other than (e, D1) changes its completed flag.
C11_CompletionFrame ==
    [][ \A p \in Procs :
          (proc[p].pc = "c_write" /\ proc'[p].pc = "done")
          => LET e == proc[p].eventId
                 D1 == NamedDay(proc[p].date)
             IN  /\ events' = events
                 /\ \A i \in DOMAIN logs' :
                       (i \notin DOMAIN logs \/ logs'[i] # logs[i])
                       => /\ logs'[i].eventId = e
                          /\ RefLocalDate(logs'[i].date) = D1
                 /\ \A i \in DOMAIN logs : i \in DOMAIN logs'
                 /\ \A t \in MonthTokens :
                       \A pair \in
                            (CompletedPairs(ViewMonthOn(events', logs',
                                                        proc[p].user, t))
                               \ CompletedPairs(ViewMonth(proc[p].user, t)))
                            \cup
                            (CompletedPairs(ViewMonth(proc[p].user, t))
                               \ CompletedPairs(ViewMonthOn(events', logs',
                                                            proc[p].user, t))) :
                          pair = <<e, D1>>
      ]_vars

\* The token of the server's current month.
CurrentMonth == MonthToken(RefLocalDate(now)[1], RefLocalDate(now)[2])

\* An occurrence as the two views have it in common: its definition, its
\* date and its completed flag.
OccurrenceOf(x) == [_id |-> x._id, date |-> x.date, completed |-> x.completed]

Occurrences(view) == [i \in DOMAIN view |-> OccurrenceOf(view[i])]

\* The occurrences of a month view dated today, in the view's order.
DatedToday(view) ==
    SelectSeq(view, LAMBDA x : RefLocalDate(x.date) = RefLocalDate(now))

\* C12: for every store and clock, the today view of a user holds the same
\* occurrences (definitions, dates, completed flags, order) as the view of
\* the current month filtered to the occurrences dated today.
C12_TodayEqualsMonthFiltered ==
    \A u \in Users :
        Occurrences(ViewToday(u))
          = Occurrences(DatedToday(ViewMonth(u, CurrentMonth)))

\* The records of a definition and a local day in the collection lgs.
LogsForIn(lgs, eventId, day) ==
    { i \in DOMAIN lgs : lgs[i].eventId = eventId /\ LocalDay(lgs[i].date) = day }

\* The step ends a complete request of connection p.
CompleteEnds(p) ==
    /\ proc'[p] # proc[p]
    /\ proc'[p].op = "complete"
    /\ proc'[p].pc = "done"

\* C13 as stated: a complete call ends either successfully with exactly one
\* record stored for its (eventId, day), or with an error and no record
\* stored for that key.
C13_OneRecordOrNoneWithError ==
    [][ \A p \in Procs :
          /\ (proc[p].pc = "c_write" /\ CompleteEnds(p))
             => LET n == Cardinality(LogsForIn(logs', proc[p].eventId,
                                               LocalDay(proc[p].targetDate)))
                IN  IF proc'[p].status = OK THEN n = 1 ELSE n = 0
          /\ (Ready(p) /\ CompleteEnds(p) /\ proc'[p].status = NOT_FOUND)
             => LogsForIn(logs', proc'[p].eventId,
                          LocalDay(TargetDate(proc'[p].date))) = {}
      ]_vars

\* C13, amended: a complete call ends either successfully, with exactly one
\* record stored for its (eventId, day) and returned, or with an error
\* (NotFound, Conflict or a storage failure) having written nothing; no step
\* of a call other than its successful last one changes the store.
C13_NoPartialApplication ==
    [][ /\ \A p \in Procs :
             CompleteEnds(p)
             => IF proc'[p].status = OK
                THEN /\ proc[p].pc = "c_write"
                     /\ LET hits == LogsForIn(logs', proc[p].eventId,
                                              LocalDay(proc[p].targetDate))
                        IN  /\ Cardinality(hits) = 1
                            /\ \A i \in hits :
                                  /\ logs'[i].completed
                                  /\ proc'[p].result = <<logs'[i]>>
                ELSE /\ proc'[p].status
                          \in {NOT_FOUND, CONFLICT, INTERNAL_SERVER_ERROR}
                     /\ proc'[p].result = <<>>
                     /\ logs' = logs
        /\ events' = events
           \/ \E p \in Procs : proc'[p].op = "create" /\ proc'[p].status = CREATED
        /\ logs' = logs
           \/ \E p \in Procs : CompleteEnds(p) /\ proc'[p].status = OK
      ]_vars

\* One call lost the race for a day and was answered Conflict, another failed
\* on the store, and the day's single record is stored.
C13_Witness ==
    /\ proc[Reader].op = "complete" /\ proc[Reader].status = CONFLICT
    /\ proc[Writer].op = "complete" /\ proc[Writer].status = INTERNAL_SERVER_ERROR
    /\ Cardinality(LogsFor(proc[Reader].eventId,
                           LocalDay(proc[Reader].targetDate))) = 1

\* The step changes exactly one record: it appends one or updates one in
\* place.
OneWrite ==
    \/ /\ Len(logs') = Len(logs) + 1
       /\ SubSeq(logs', 1, Len(logs)) = logs
    \/ /\ Len(logs') = Len(logs)
       /\ Cardinality({ i \in DOMAIN logs : logs'[i] # logs[i] }) = 1

\* C19: a complete call whose store call fails (a create refused by the
\* unique index, or any call that throws) ends at once with an error and no
\* result, leaving the records as they were; it is not attempted again, and a
\* call writes the records at most once, in the step that ends it.
C19_FailureSurfacesNoRetry ==
    [][ \A p \in Procs :
          /\ (/\ proc'[p] # proc[p]
              /\ proc[p].pc = "c_write"
              /\ proc[p].existingLog = NoLog
              /\ DuplicateKey(proc[p].eventId, proc[p].targetDate))
             => /\ CompleteEnds(p)
                /\ proc'[p].status \in {CONFLICT, INTERNAL_SERVER_ERROR}
          /\ (/\ proc'[p] # proc[p]
              /\ proc'[p].status \in {CONFLICT, INTERNAL_SERVER_ERROR})
             => /\ CompleteEnds(p)
                /\ proc'[p].result = <<>>
                /\ logs' = logs
          /\ (proc'[p] # proc[p] /\ logs' # logs)
             => /\ proc[p].pc = "c_write"
                /\ CompleteEnds(p)
                /\ OneWrite
      ]_vars

\* A call was ended by a store failure after both records of the model were
\* written.
C19_Witness ==
    /\ \E p \in Procs :
          proc[p].op = "complete" /\ proc[p].status = INTERNAL_SERVER_ERROR
    /\ Len(logs) = MaxLogs

\* A month parameter is well-formed when it reads YYYY-MM with MM in 01..12.
WellFormedMonth(month) ==
    /\ Len(month) = 7
    /\ \A i \in {1, 2, 3, 4} : \E k \in 0 .. 9 : month[i] = Digit(k)
    /\ month[5] = "-"
    /\ \E m \in 1 .. 12 : <<month[6], month[7]>> = <<Digit(m \div 10), Digit(m % 10)>>

\* C14: a month request with a malformed token is answered with a
\* validation error before any store read, and only a well-formed token
\* (YYYY-MM, MM in 01..12) has its range materialized.
C14_MalformedMonthRejected ==
    [][ \A p \in Procs :
          (Ready(p) /\ proc'[p] # proc[p] /\ proc'[p].op = "month")
          => IF WellFormedMonth(proc'[p].query)
             THEN proc'[p].pc = "m_recurring"
             ELSE /\ proc'[p].pc = "done"
                  /\ proc'[p].status = BAD_REQUEST
                  /\ proc'[p].oneTimeEvents = <<>>
                  /\ proc'[p].result = <<>>
      ]_vars

\* C18: for every year and every month 01..12 the month view covers the
\* range from local midnight of day 1 to the end of the last day of that
\* calendar month (28, 29, 30 or 31 days), start never after end, and a daily
\* definition has exactly one occurrence on each day of the month.
C18_FullCalendarMonth ==
    \A p \in Procs :
        (/\ proc[p].op = "month" /\ proc[p].pc = "done" /\ proc[p].status = OK
         /\ proc[p].month.month \in 1 .. 12)
        => LET y == proc[p].month.year
               m == proc[p].month.month
               n == RefDaysInMonth(y, m)
               result == proc[p].result
           IN  /\ MonthStart(proc[p].month) = RefLocalMidnight(y, m, 1)
               /\ MonthEnd(proc[p].month)
                    = RefLocalMidnight(y, m, n) + EndOfDayMinute
               /\ MonthStart(proc[p].month) <= MonthEnd(proc[p].month)
               /\ \A k \in DOMAIN proc[p].recurringEvents :
                     LET r == proc[p].recurringEvents[k]
                         occ == { i \in DOMAIN result : result[i]._id = r._id }
                     IN  r.recurrence.type = "daily"
                         => /\ { result[i].date : i \in occ }
                                 = { RefLocalMidnight(y, m, d) : d \in 1 .. n }
                            /\ Cardinality(occ) = n

\* A create request the contract refuses: no title or a blank one, or a
\* recurring weekly/custom rule with no day of the week.
MustReject(body) ==
    \/ \A i \in DOMAIN body.title : body.title[i] = " "
    \/ /\ body.isRecurring
       /\ body.recurrence.type \in {"weekly", "custom"}
       /\ body.recurrence.daysOfWeek = {}

\* C15: a create request with a missing or blank title, or recurring with a
\* weekly/custom rule whose daysOfWeek is empty or absent, is answered with a
\* validation error and stores nothing; every stored recurring weekly/custom
\* definition has a non-empty daysOfWeek within 0..6.
C15_CreateValidation ==
    [][ /\ (proc'[Writer] # proc[Writer] /\ proc'[Writer].op = "create")
           => \A c \in CreateCalls :
                 (MustReject(c[2]) /\ CreateStudyEvent(Writer, c[1], c[2]))
                 => /\ proc'[Writer].status = BAD_REQUEST
                    /\ proc'[Writer].result = <<>>
                    /\ events' = events
        /\ \A e \in DOMAIN events' :
              (events'[e].isRecurring
                 /\ events'[e].recurrence.type \in {"weekly", "custom"})
              => /\ events'[e].recurrence.daysOfWeek # {}
                 /\ events'[e].recurrence.daysOfWeek \subseteq 0 .. 6
      ]_vars

\* A create request was refused while a recurring weekly definition and a
\* one-off definition are stored.
C15_Witness ==
    /\ proc[Writer].op = "create" /\ proc[Writer].status = BAD_REQUEST
    /\ \E e \in DOMAIN events :
          events[e].isRecurring /\ events[e].recurrence.type = "weekly"
    /\ \E e \in DOMAIN events : ~events[e].isRecurring

\* C16: the month view and the today view are read-only: no step of either
\* changes the definitions or the completion records.
C16_ViewsReadOnly ==
    [][ \A p \in Procs :
          (proc'[p] # proc[p] /\ proc'[p].op \in {"month", "today"})
          => /\ events' = events
             /\ logs' = logs
      ]_vars

\* A today view and its reads were answered, with a completed occurrence,
\* from a store holding definitions and records.
C16_Witness ==
    /\ proc[Reader].op = "today" /\ proc[Reader].pc = "done"
    /\ \E i \in DOMAIN proc[Reader].result : proc[Reader].result[i].completed
    /\ Len(events) = MaxEvents
    /\ logs # << >>

\* The definitions and occurrence dates of a list, in its order.
InstanceOrder(list) ==
    [i \in DOMAIN list |-> <<list[i]._id, list[i].instanceDate>>]

\* C17: the list a month view answers is sorted ascending by occurrence
\* date, and it has the order of the sorted instances: annotating them with
\* completed flags does not reorder them.
C17_SortedByDate ==
    \A p \in Procs :
        (proc[p].op = "month" /\ proc[p].pc = "done" /\ proc[p].status = OK)
        => LET result == proc[p].result IN
           /\ \A i \in 1 .. Len(result) - 1 :
                 result[i].instanceDate <= result[i + 1].instanceDate
           /\ InstanceOrder(result)
                = InstanceOrder(EventInstances(proc[p].oneTimeEvents,
                                               proc[p].recurringEvents,
                                               MonthStart(proc[p].month),
                                               MonthEnd(proc[p].month)))

\* A month view holds a one-off occurrence between two occurrences of a
\* recurring definition, one of its occurrences completed.
C17_Witness ==
    /\ proc[Reader].op = "month" /\ proc[Reader].pc = "done"
    /\ \E i, j, k \in DOMAIN proc[Reader].result :
          /\ i < j /\ j < k
          /\ proc[Reader].result[i].isRecurring
          /\ ~proc[Reader].result[j].isRecurring
          /\ proc[Reader].result[k].isRecurring
    /\ \E i \in DOMAIN proc[Reader].result : proc[Reader].result[i].completed

\* C20: the definitions a month view uses are the user's definitions as
\* stored at one single instant (the store only grows, so an instant is a
\* prefix of the collection), whatever was created between the view's reads.
C20_DefinitionsSnapshot ==
    [][ \A p \in Procs :
          (proc[p].pc = "m_recurring" /\ proc'[p].pc = "m_logs")
          => \E k \in 0 .. Len(events) :
                LET snapshot == SubSeq(events, 1, k) IN
                /\ proc[p].oneTimeEvents
                     = SortByDate(FindOneTimeEventsIn(
                           snapshot, proc[p].user,
                           MonthStart(proc[p].month), MonthEnd(proc[p].month)))
                /\ proc'[p].recurringEvents
                     = FindRecurringEventsIn(snapshot, proc[p].user)
      ]_vars

\* The definition has an occurrence on the local day of the time t.
OccursOn(event, t) ==
    IF event.isRecurring
    THEN matchesRecurrence(event, SetHoursMidnight(t))
    ELSE event.date # NoDate /\ LocalDay(event.date) = LocalDay(t)

\* C21: every stored completion record marks an occurrence: its day is one
\* on which its definition occurs (the Evaluator fires, or it is the day of
\* the one-off's fixedDate).
C21_RecordMarksOccurrence ==
    \A i \in DOMAIN logs :
        /\ logs[i].eventId \in DOMAIN events
        /\ OccursOn(events[logs[i].eventId], logs[i].date)

\* C22: in every stored definition the date is present only when the
\* definition is not recurring.
C22_FixedDateOnlyOnOneOff ==
    \A e \in DOMAIN events : events[e].isRecurring => events[e].date = NoDate

\* C23: a month or today request reads the one-time definitions, then the
\* recurring definitions, then the completion records, once: the records it
\* uses are those stored at its last step, looked up for every candidate
\* definition of both reads.
C23_RecordsLoadedOnceAfterDefinitions ==
    [][ \A p \in Procs :
          (proc'[p] # proc[p] /\ proc'[p].op \in {"month", "today"})
          => /\ proc'[p].pc \in {"m_recurring", "t_recurring"} => Ready(p)
             /\ proc'[p].pc \in {"m_logs", "t_logs"}
                => proc[p].pc \in {"m_recurring", "t_recurring"}
             /\ (proc'[p].pc = "done" /\ proc'[p].status = OK)
                => /\ proc[p].pc \in {"m_logs", "t_logs"}
                   /\ \A i \in DOMAIN proc'[p].result :
                         LET x == proc'[p].result[i] IN
                         x.completed
                         <=> \E j \in DOMAIN logs :
                                /\ logs[j].eventId = x._id
                                /\ logs[j].completed
                                /\ IF proc[p].pc = "m_logs"
                                   THEN ISODate(logs[j].date) = ISODate(x.instanceDate)
                                   ELSE /\ logs[j].date >= proc[p].targetDate
                                        /\ logs[j].date
                                             <= SetHoursEndOfDay(proc[p].targetDate)
      ]_vars

\* A month view answered a completed occurrence of a recurring definition
\* and an occurrence of a one-off one.
C23_Witness ==
    /\ proc[Reader].op = "month" /\ proc[Reader].pc = "done"
    /\ \E i, j \in DOMAIN proc[Reader].result :
          /\ proc[Reader].result[i].isRecurring
          /\ proc[Reader].result[i].completed
          /\ ~proc[Reader].result[j].isRecurring

\* The local calendar day a completion request names: the day of the date
\* it sends, or the day of the clock when it sends none.
RequestedDay(date) ==
    IF date.form = "absent"
    THEN (now + TZ) \div MinutesPerDay
    ELSE IF date.form = "local"
         THEN DaysFromCivil(date.y, date.m, date.d)
         ELSE (DaysFromCivil(date.y, date.m, date.d) * MinutesPerDay
                 + date.minute + TZ) \div MinutesPerDay

\* C24: every stored completion record is dated at local midnight, whatever
\* time of day the caller sent; a completion without a date is stored for
\* today at local midnight, and one with a date for the local day of that
\* date.
C24_RecordAtLocalMidnight ==
    [][ /\ \A i \in DOMAIN logs' : (logs'[i].date + TZ) % MinutesPerDay = 0
        /\ \A p \in Procs :
             (CompleteEnds(p) /\ proc'[p].status = OK)
             => /\ Len(proc'[p].result) = 1
                /\ proc'[p].result[1] \in { logs'[i] : i \in DOMAIN logs' }
                /\ proc'[p].result[1].date
                     = RequestedDay(proc[p].date) * MinutesPerDay - TZ
      ]_vars

\* One completion sent without a date and one sent with a time of day have
\* both been stored.
C24_Witness ==
    /\ \A p \in Procs : /\ proc[p].op = "complete" /\ proc[p].pc = "done"
                        /\ proc[p].status = OK
    /\ proc[Writer].date.form = "absent"
    /\ proc[Reader].date.minute # 0
    /\ Len(logs) = 2

\* No two entries of a view are occurrences of the same definition on the
\* same calendar day, local or UTC.
DistinctOccurrences(view) ==
    \A i, j \in DOMAIN view :
        (i # j /\ view[i]._id = view[j]._id)
        => /\ LocalDay(view[i].date) # LocalDay(view[j].date)
           /\ ISODate(view[i].date) # ISODate(view[j].date)

\* C25: within one answered month view or today view no two occurrences
\* share the identity (definition, calendar day).
C25_OccurrenceIdentityUnique ==
    \A p \in Procs :
        (proc[p].op \in {"month", "today"} /\ proc[p].pc = "done"
           /\ proc[p].status = OK)
        => DistinctOccurrences(proc[p].result)

\* An answered month view holds several occurrences of one definition and
\* an occurrence of another.
C25_Witness ==
    /\ proc[Reader].op = "month" /\ proc[Reader].pc = "done"
    /\ \E i, j, k \in DOMAIN proc[Reader].result :
          /\ i # j
          /\ proc[Reader].result[i]._id = proc[Reader].result[j]._id
          /\ proc[Reader].result[k]._id # proc[Reader].result[i]._id

\* An answered today view holds two occurrences.
C25_WitnessToday ==
    /\ proc[Reader].op = "today" /\ proc[Reader].pc = "done"
    /\ Len(proc[Reader].result) = 2

\* C26: every stored completion record has completed = true.
C26_RecordsAlwaysCompleted ==
    \A i \in DOMAIN logs : logs[i].completed

\* Two records are stored and a request has just saved again a record it
\* found.
C26_Witness ==
    /\ Len(logs) = 2
    /\ \E p \in Procs :
          /\ proc[p].op = "complete" /\ proc[p].pc = "done"
          /\ proc[p].status = OK
          /\ proc[p].existingLog # NoLog

\* C27: when two complete requests for the same definition and day have
\* both looked the record up before either wrote, the first create stores
\* the record and the second is refused by the unique index: it answers 409
\* without the record and stores nothing, so the two do not both succeed.
C27_RaceLoserGetsConflict ==
    [][ \A p \in Procs :
          (CompleteEnds(p) /\ proc[p].pc = "c_write" /\ proc[p].existingLog = NoLog)
          => /\ (\E i \in DOMAIN logs : /\ logs[i].eventId = proc[p].eventId
                                        /\ logs[i].date = proc[p].targetDate)
                => /\ proc'[p].status = CONFLICT
                   /\ proc'[p].result = <<>>
                   /\ logs' = logs
             /\ \A q \in Procs \ {p} :
                   (/\ proc[q].op = "complete" /\ proc[q].pc = "done"
                    /\ proc[q].existingLog = NoLog
                    /\ proc[q].eventId = proc[p].eventId
                    /\ proc[q].targetDate = proc[p].targetDate
                    /\ proc[q].status = OK)
                   => proc'[p].status = CONFLICT
      ]_vars

\* The owner's two connections raced on one day: the writer's create was
\* stored and the reader's was refused.
C27_Witness ==
    /\ proc[Writer].op = "complete" /\ proc[Writer].pc = "done"
    /\ proc[Reader].op = "complete" /\ proc[Reader].pc = "done"
    /\ proc[Writer].existingLog = NoLog /\ proc[Reader].existingLog = NoLog
    /\ proc[Writer].eventId = proc[Reader].eventId
    /\ proc[Writer].targetDate = proc[Reader].targetDate
    /\ proc[Writer].status = OK /\ proc[Writer].result # <<>>
    /\ proc[Reader].status = CONFLICT /\ proc[Reader].result = <<>>
    /\ Len(logs) = 1

\* C28: for every occurrence of an answered month view, the key under which
\* the view looks its completion up (the definition and the UTC day of the
\* occurrence's date) is the key of the record that completing the
\* occurrence stores (the definition and the UTC day of the local midnight
\* of that date).
C28_DayKeyAgreement ==
    \A p \in Procs :
        (proc[p].op = "month" /\ proc[p].pc = "done" /\ proc[p].status = OK)
        => \A i \in DOMAIN proc[p].result :
              LET x == proc[p].result[i] IN
              LogKey(x._id, x.instanceDate)
                = LogKey(x._id, SetHoursMidnight(x.instanceDate))

\* The occurrences (definition, date) a month view reports as completed.
CompletedOccurrences(view) ==
    UNION { { <<v[i]._id, v[i].instanceDate>> :
                i \in { j \in DOMAIN v : v[j].completed } } : v \in {view} }

\* C29: completion is monotonic: every step keeps every stored record, with
\* its definition and date and with completed = true, and every occurrence a
\* month view reports as completed before the step is reported as completed
\* after it.
C29_CompletionMonotonic ==
    [][ (events' # events \/ logs' # logs)
        => /\ \A i \in DOMAIN logs :
                 /\ i \in DOMAIN logs'
                 /\ logs'[i].eventId = logs[i].eventId
                 /\ logs'[i].date = logs[i].date
                 /\ logs[i].completed
                 /\ logs'[i].completed
           /\ \A u \in Users, t \in MonthTokens :
                 CompletedOccurrences(ViewMonthOn(events, logs, u, t))
                   \subseteq CompletedOccurrences(ViewMonthOn(events', logs', u, t))
      ]_vars

\* The month view reports a completed occurrence, two records are stored and
\* a complete request has just saved again a record it found.
C29_Witness ==
    /\ proc[Reader].op = "complete" /\ proc[Reader].pc = "done"
    /\ proc[Reader].status = OK
    /\ proc[Reader].existingLog # NoLog
    /\ Len(logs) = 2
    /\ \E t \in MonthTokens : CompletedOccurrences(ViewMonth("A", t)) # {}

\* C30: every stored completion record refers to a stored definition, and
\* no step removes or renumbers a definition.
C30_ReferentialIntegrity ==
    [][ /\ \A i \in DOMAIN logs' :
              /\ logs'[i].eventId \in DOMAIN events'
              /\ events'[logs'[i].eventId]._id = logs'[i].eventId
        /\ \A e \in DOMAIN events :
              /\ e \in DOMAIN events'
              /\ events'[e]._id = events[e]._id
      ]_vars

\* A record is stored, and a complete request naming a definition that does
\* not exist was refused.
C30_Witness ==
    /\ logs # << >>
    /\ proc[Writer].op = "complete" /\ proc[Writer].pc = "done"
    /\ proc[Writer].eventId \notin DOMAIN events
    /\ proc[Writer].status = NOT_FOUND

====
